---------------------------- MODULE Spec2Model ----------------------------
(***************************************************************************)
(* A model of boa/environment.py: the parameter patch (VMPatcher), the     *)
(* address codec (Address), the process-wide precompile table, the         *)
(* execution-frame extension (titanoboa_computation), the tracing hooks    *)
(* and the orchestrating environment (Env).                                *)
(*                                                                         *)
(* The underlying engine (py-evm) is outside the repository.  It is        *)
(* modelled by its interface only: account state (balance, nonce, code),   *)
(* snapshot()/revert(id), and the outcome of running a message, which is   *)
(* chosen nondeterministically.                                            *)
(***************************************************************************)
EXTENDS Integers, Sequences, FiniteSets, TLC

VARIABLES
    execution_context,  \* vm.state.execution_context: attribute -> value
    spurious_dragon,    \* the module patched by _cmp_patchables: attribute -> value
    balance,            \* engine account state: address -> balance
    nonce,              \* engine account state: address -> nonce
    code,               \* engine account state: address -> bytecode
    checkpoints,        \* engine snapshots that can still be reverted to
    anchors,            \* the Env.anchor() scopes that are open, innermost last
    entered,            \* for each open scope, the state observed when it was entered
    steps,              \* number of state-writing calls made so far
    _cache,             \* Address._cache: the inputs that have a cached Address
    _precompiles,       \* the module global _precompiles: Address object -> handler
    _contracts,         \* Env._contracts: canonical address -> handler
    _code_registry,     \* Env._code_registry: bytecode -> handler
    _speed,             \* Env._speed
    _coverage_enabled,  \* Env._coverage_enabled
    sstore_trace,       \* Env.sstore_trace: account -> set of slots
    executed,           \* the (account, slot) pairs SSTORE ran on since the last reset
    deploys,            \* the deploys made without override: <<sender, target>>
    sha3_trace,         \* Env.sha3_trace: hash -> preimage
    _gas_meter_class,   \* vm.state.computation_class._gas_meter_class
    gas_scopes,         \* the Env.gas_meter_class() scopes that are open: their tmp
    gas_entered,        \* for each open scope, the strategy observed at entry
    _address_counter,   \* Env._address_counter
    _aliases,           \* Env._aliases: canonical address -> name
    generated,          \* the addresses generate_address has returned, in order
    execution_context2, \* the execution context of a second Env's VM
    class_precompiles,  \* the _precompiles table of the computation class
    frames,             \* the frames constructed: _precompiles, _child_pcs, children
    registrations,      \* the registrations made: address, bytecode, handler
    last                \* the last call made: its arguments and its outcome

patchVars    == <<execution_context, spurious_dragon>>
engineVars   == <<balance, nonce, code>>
anchorVars   == <<checkpoints, anchors, entered>>
addressVars  == <<_cache, _precompiles>>
registryVars == <<_contracts, _code_registry>>
modeVars     == <<_speed, _coverage_enabled>>
observedVars == <<sstore_trace, executed, deploys>>
gasVars      == <<_gas_meter_class, gas_scopes, gas_entered>>
counterVars  == <<_address_counter, _aliases, generated>>
frameVars    == <<class_precompiles, frames>>

vars == <<execution_context, spurious_dragon, balance, nonce, code, checkpoints,
          anchors, entered, steps, _cache, _precompiles, _contracts,
          _code_registry, _speed, _coverage_enabled, sstore_trace, executed, deploys,
          sha3_trace, _gas_meter_class, gas_scopes, gas_entered, _address_counter,
          _aliases, generated, execution_context2, class_precompiles, frames,
          registrations, last>>

-----------------------------------------------------------------------------
(* Bounds of the model. *)

\* values written to a balance or a patch parameter are drawn from 0..MaxVal
MaxVal == 1
\* nesting depth of Env.anchor() scopes
MaxDepth == 2
\* number of state-writing calls in one behaviour of the anchor and precompile
\* specifications
MaxSteps == 2
\* time_travel is not taken beyond this timestamp
MaxTime == 150
\* time_travel is not taken beyond this block number
MaxBlock == 30

Values == 0..MaxVal

\* Optional arguments: None, or a supplied value.
None == <<>>
Some(v) == <<v>>

\* d[k] = v, as a Python dict assignment
Put(d, k, v) == [x \in DOMAIN d \cup {k} |-> IF x = k THEN v ELSE d[x]]

\* the empty dict
EmptyDict == [x \in {} |-> 0]

-----------------------------------------------------------------------------
(* VMPatcher *)

_exc_patchables ==
    [block_number |-> "_block_number",
     timestamp    |-> "_timestamp",
     coinbase     |-> "_coinbase",
     difficulty   |-> "_difficulty",
     prev_hashes  |-> "_prev_hashes",
     chain_id     |-> "_chain_id",
     gas_limit    |-> "_gas_limit"]

_cmp_patchables == [code_size_limit |-> "EIP170_CODE_SIZE_LIMIT"]

ExcAttrs == {_exc_patchables[n] : n \in DOMAIN _exc_patchables}
CmpAttrs == {_cmp_patchables[n] : n \in DOMAIN _cmp_patchables}

\* the names VMPatcher.anchor iterates over, in the order of _patchables
PatchableNames ==
    <<"block_number", "timestamp", "coinbase", "difficulty", "prev_hashes",
      "chain_id", "gas_limit", "code_size_limit">>

PatchNames == DOMAIN _exc_patchables \cup DOMAIN _cmp_patchables

\* a name that is in neither table
UnknownNames == {"base_fee"}

\* the two patched objects, as one value
Patched == [execution_context |-> execution_context, spurious_dragon |-> spurious_dragon]

\* VMPatcher.__getattr__: the value, or AttributeError
VMPatcher_getattr(p, attr) ==
    IF attr \in DOMAIN _exc_patchables
    THEN [err |-> "none", value |-> p.execution_context[_exc_patchables[attr]]]
    ELSE IF attr \in DOMAIN _cmp_patchables
    THEN [err |-> "none", value |-> p.spurious_dragon[_cmp_patchables[attr]]]
    ELSE [err |-> "AttributeError", value |-> 0]

\* VMPatcher.__setattr__: the patched objects after the assignment, and the
\* error raised; a name in neither table falls out of the loop
VMPatcher_setattr(p, attr, value) ==
    IF attr \in DOMAIN _exc_patchables
    THEN [err |-> "none",
          p |-> [p EXCEPT !.execution_context[_exc_patchables[attr]] = value]]
    ELSE IF attr \in DOMAIN _cmp_patchables
    THEN [err |-> "none",
          p |-> [p EXCEPT !.spurious_dragon[_cmp_patchables[attr]] = value]]
    ELSE [err |-> "none", p |-> p]

\* VMPatcher.anchor, before the yield: snap[attr] = getattr(self, attr)
VMPatcher_snap(p) ==
    [attr \in PatchNames |-> VMPatcher_getattr(p, attr).value]

\* a restore that walks only the first table of _patchables
VMPatcher_restore_ExcOnly(p, snap) ==
    LET F[k \in 0..Len(PatchableNames)] ==
            IF k = 0 THEN p
            ELSE IF PatchableNames[k] \in DOMAIN _exc_patchables
                 THEN VMPatcher_setattr(F[k - 1], PatchableNames[k],
                                        snap[PatchableNames[k]]).p
                 ELSE F[k - 1]
    IN  F[Len(PatchableNames)]

\* VMPatcher.anchor, the finally block: setattr(self, attr, snap[attr]) for
\* every name of every table
VMPatcher_restore(p, snap) ==
    LET F[k \in 0..Len(PatchableNames)] ==
            IF k = 0 THEN p
            ELSE VMPatcher_setattr(F[k - 1], PatchableNames[k],
                                   snap[PatchableNames[k]]).p
    IN  F[Len(PatchableNames)]


-----------------------------------------------------------------------------
(* Addresses and the engine's account state *)

\* Env._initial_address_counter
_initial_address_counter == 100

\* the accounts of the model: the first two addresses generate_address hands out
Accounts == {_initial_address_counter + 1, _initial_address_counter + 2}

\* nonces are not taken beyond this value
MaxNonce == 1

\* eth._utils.address.generate_contract_address: a hash of (sender, nonce),
\* collision-free, modelled by an injective pairing
generate_contract_address(sender, n) == sender * 1000 + n

CreatedAddrs == {generate_contract_address(s, n) : s \in Accounts, n \in 0..MaxNonce}

AllAddrs == Accounts \cup CreatedAddrs

\* constants.CREATE_CONTRACT_ADDRESS, the empty byte string
CREATE_CONTRACT_ADDRESS == 0

\* the engine state a snapshot captures
EngineState == [balance |-> balance, nonce |-> nonce, code |-> code]

\* vm.state.snapshot(): the id of the new checkpoint
Engine_snapshot_id == Len(checkpoints) + 1

-----------------------------------------------------------------------------
(* Env: balances, the parameter patch, anchor *)

\* Env.set_balance
SetBalance(addr, value) ==
    /\ balance' = [balance EXCEPT ![addr] = value]
    /\ last' = [op |-> "set_balance"]
    /\ UNCHANGED <<patchVars, nonce, code, anchorVars, addressVars, registryVars,
                   modeVars, observedVars,
                   sha3_trace, gasVars, counterVars, execution_context2, frameVars,
                   registrations>>

\* value = env.vm.patch.<name>
PatchGet(name) ==
    /\ LET r == VMPatcher_getattr(Patched, name)
       IN  last' = [op |-> "getattr", name |-> name, err |-> r.err, value |-> r.value]
    /\ UNCHANGED <<patchVars, engineVars, anchorVars, addressVars, registryVars,
                   modeVars, observedVars,
                   sha3_trace, gasVars, counterVars, execution_context2, frameVars,
                   registrations>>

\* env.vm.patch.<name> = value
PatchSet(name, value) ==
    /\ LET r == VMPatcher_setattr(Patched, name, value)
       IN  /\ execution_context' = r.p.execution_context
           /\ spurious_dragon' = r.p.spurious_dragon
           /\ last' = [op |-> "setattr", name |-> name, err |-> r.err, value |-> value]
    /\ UNCHANGED <<engineVars, anchorVars, addressVars, registryVars, modeVars,
                   observedVars,
                   sha3_trace, gasVars, counterVars, execution_context2, frameVars,
                   registrations>>

\* Env.anchor, up to the yield: what is acquired, in order
Env_anchor_enter == <<"state.snapshot", "patch.snap">>

\* an anchor without try/finally: nothing is released when the body raised
Env_anchor_exit_NoFinally(raised) ==
    IF raised THEN <<>> ELSE <<"patch.restore", "state.revert">>

\* Env.anchor, from the yield on: what is released, in order.  The with block
\* of VMPatcher.anchor is left first and its finally clause restores the
\* patch; the finally clause of Env.anchor then reverts the engine state.
Env_anchor_exit(raised) == <<"patch.restore", "state.revert">>

\* the elements of a sequence
Range(seq) == {seq[i] : i \in 1..Len(seq)}

\* Env.anchor, up to the yield: the engine snapshot, then VMPatcher.anchor's
\* snap
AnchorEnter ==
    /\ Len(anchors) < MaxDepth
    /\ checkpoints' = Append(checkpoints, EngineState)
    /\ anchors' = Append(anchors, [snapshot_id |-> Engine_snapshot_id,
                                   snap |-> VMPatcher_snap(Patched)])
    /\ entered' = Append(entered, [balance |-> balance,
                                   execution_context |-> execution_context,
                                   spurious_dragon |-> spurious_dragon])
    /\ last' = [op |-> "anchor_enter", events |-> Env_anchor_enter]
    /\ UNCHANGED <<patchVars, engineVars, addressVars, registryVars, modeVars,
                   observedVars,
                   sha3_trace, gasVars, counterVars, execution_context2, frameVars,
                   registrations>>

\* Env.anchor, from the yield on: the body returned or raised; the finally
\* block of VMPatcher.anchor runs, then vm.state.revert(snapshot_id)
AnchorExit(raised) ==
    /\ Len(anchors) > 0
    /\ LET a == anchors[Len(anchors)]
           events == Env_anchor_exit(raised)
           p == IF "patch.restore" \in Range(events)
                THEN VMPatcher_restore(Patched, a.snap) ELSE Patched
           e == IF "state.revert" \in Range(events)
                THEN checkpoints[a.snapshot_id] ELSE EngineState
       IN  /\ execution_context' = p.execution_context
           /\ spurious_dragon' = p.spurious_dragon
           /\ balance' = e.balance
           /\ nonce' = e.nonce
           /\ code' = e.code
           /\ checkpoints' = SubSeq(checkpoints, 1, a.snapshot_id - 1)
           /\ last' = [op |-> "anchor_exit", raised |-> raised, events |-> events,
                       changed |-> \/ balance # entered[Len(entered)].balance
                                   \/ execution_context #
                                          entered[Len(entered)].execution_context
                                   \/ spurious_dragon #
                                          entered[Len(entered)].spurious_dragon]
    /\ anchors' = SubSeq(anchors, 1, Len(anchors) - 1)
    /\ entered' = SubSeq(entered, 1, Len(entered) - 1)
    /\ UNCHANGED <<addressVars, registryVars, modeVars, observedVars,
                   sha3_trace, gasVars, counterVars, execution_context2, frameVars,
                   registrations>>

-----------------------------------------------------------------------------
(* Env.time_travel *)

\* a check of the arguments by truth value instead of by "is None"
time_travel_args_Truthy(seconds, blocks, block_delta) ==
    LET unset(x) == x = None \/ x = Some(0)
    IN  IF unset(seconds) = unset(blocks)
        THEN [err |-> "ValueError", seconds |-> 0, blocks |-> 0]
        ELSE IF ~unset(seconds)
        THEN IF block_delta = 0
             THEN [err |-> "ZeroDivisionError", seconds |-> 0, blocks |-> 0]
             ELSE [err |-> "none", seconds |-> seconds[1],
                   blocks |-> seconds[1] \div block_delta]
        ELSE [err |-> "none", seconds |-> blocks[1] * block_delta,
              blocks |-> blocks[1]]

\* a derivation of the block count that rounds up
time_travel_args_RoundUp(seconds, blocks, block_delta) ==
    IF (seconds = None) = (blocks = None)
    THEN [err |-> "ValueError", seconds |-> 0, blocks |-> 0]
    ELSE IF seconds # None
    THEN IF block_delta = 0
         THEN [err |-> "ZeroDivisionError", seconds |-> 0, blocks |-> 0]
         ELSE [err |-> "none", seconds |-> seconds[1],
               blocks |-> (seconds[1] + block_delta - 1) \div block_delta]
    ELSE [err |-> "none", seconds |-> blocks[1] * block_delta, blocks |-> blocks[1]]

\* Env.time_travel, up to the two updates: the error raised, or the seconds
\* and blocks to add
time_travel_args(seconds, blocks, block_delta) ==
    IF (seconds = None) = (blocks = None)
    THEN [err |-> "ValueError", seconds |-> 0, blocks |-> 0]
    ELSE IF seconds # None
    THEN IF block_delta = 0
         THEN [err |-> "ZeroDivisionError", seconds |-> 0, blocks |-> 0]
         ELSE [err |-> "none", seconds |-> seconds[1],
               blocks |-> seconds[1] \div block_delta]
    ELSE [err |-> "none", seconds |-> blocks[1] * block_delta, blocks |-> blocks[1]]

\* Env.time_travel
TimeTravel(seconds, blocks, block_delta) ==
    LET a  == time_travel_args(seconds, blocks, block_delta)
        t  == VMPatcher_getattr(Patched, "timestamp").value + a.seconds
        p1 == VMPatcher_setattr(Patched, "timestamp", t).p
        b  == VMPatcher_getattr(p1, "block_number").value + a.blocks
        p2 == VMPatcher_setattr(p1, "block_number", b).p
    IN  /\ a.err = "none" => (t <= MaxTime /\ b <= MaxBlock)
        /\ execution_context' =
               IF a.err = "none" THEN p2.execution_context ELSE execution_context
        /\ spurious_dragon' =
               IF a.err = "none" THEN p2.spurious_dragon ELSE spurious_dragon
        /\ last' = [op |-> "time_travel", seconds |-> seconds, blocks |-> blocks,
                    block_delta |-> block_delta, err |-> a.err]
        /\ UNCHANGED <<engineVars, anchorVars, addressVars, registryVars, modeVars,
                       observedVars,
                   sha3_trace, gasVars, counterVars, execution_context2, frameVars,
                   registrations>>

-----------------------------------------------------------------------------
(* Address and the process-wide precompile table *)

\* CONSOLE_ADDRESS; the number stands for the 20-byte value
CONSOLE_ADDRESS == 99

\* an address no precompile is registered at when the module is loaded
OtherPrecompileAddress == CONSOLE_ADDRESS - 1

\* The representations an address can be given in.  An input is a record
\* [kind, addr]: the raw bytes, the checksummed text or the lowercase text of
\* addr; or [kind |-> "Address", obj] for an Address object.
TextKinds == {"bytes", "checksum", "normalized"}

AddressInputs(addrs) == [kind : TextKinds, addr : addrs]

\* eth_utils.to_canonical_address: the 20 bytes, whatever the representation
to_canonical_address(x) == x.addr

\* Address.__new__.  An Address object has the identity of the cache entry
\* made for the input it was built from: the class defines neither __eq__ nor
\* __hash__, so two objects are the same dict key only if they are one object.
\* The cache holds 1024 entries and the model's inputs are fewer, so no entry
\* is evicted.
Address_new(cache, x) ==
    IF x.kind = "Address"
    THEN [obj |-> x.obj, cache |-> cache]
    ELSE IF x \in DOMAIN cache
    THEN [obj |-> cache[x], cache |-> cache]
    ELSE LET self == [input |-> x, canonical_address |-> to_canonical_address(x)]
         IN  [obj |-> self, cache |-> Put(cache, x, self)]

\* the Address objects that exist
AddressObjects == {_cache[k] : k \in DOMAIN _cache}

\* d.pop(k, None)
Pop(d, k) == [x \in DOMAIN d \ {k} |-> d[x]]

\* register_raw_precompile
RegisterRawPrecompile(address, fn, force) ==
    /\ LET r == Address_new(_cache, address)
       IN  /\ _cache' = r.cache
           /\ IF r.obj \in DOMAIN _precompiles /\ ~force
              THEN /\ _precompiles' = _precompiles
                   /\ last' = [op |-> "register_raw_precompile",
                               canonical |-> r.obj.canonical_address,
                               fn |-> fn, force |-> force, err |-> "ValueError"]
              ELSE /\ _precompiles' = Put(_precompiles, r.obj, fn)
                   /\ last' = [op |-> "register_raw_precompile",
                               canonical |-> r.obj.canonical_address,
                               fn |-> fn, force |-> force, err |-> "none"]
    /\ UNCHANGED <<patchVars, engineVars, anchorVars, registryVars, modeVars,
                   observedVars,
                   sha3_trace, gasVars, counterVars, execution_context2, frameVars,
                   registrations>>

\* deregister_raw_precompile
DeregisterRawPrecompile(address, force) ==
    /\ LET r == Address_new(_cache, address)
       IN  /\ _cache' = r.cache
           /\ IF r.obj \notin DOMAIN _precompiles /\ ~force
              THEN /\ _precompiles' = _precompiles
                   /\ last' = [op |-> "deregister_raw_precompile",
                               canonical |-> r.obj.canonical_address,
                               force |-> force, err |-> "ValueError"]
              ELSE /\ _precompiles' = Pop(_precompiles, r.obj)
                   /\ last' = [op |-> "deregister_raw_precompile",
                               canonical |-> r.obj.canonical_address,
                               force |-> force, err |-> "none"]
    /\ UNCHANGED <<patchVars, engineVars, anchorVars, registryVars, modeVars,
                   observedVars,
                   sha3_trace, gasVars, counterVars, execution_context2, frameVars,
                   registrations>>

\* the state of the two module globals once the module is loaded:
\* register_raw_precompile(CONSOLE_ADDRESS, console_log)
ConsoleKey == [kind |-> "bytes", addr |-> CONSOLE_ADDRESS]
ModuleLoaded == Address_new(EmptyDict, ConsoleKey)

-----------------------------------------------------------------------------
(* Bytecode, handlers and the contract registry *)

\* Bytecode: the empty string, an ordinary program, or the minimal-proxy
\* template with the delegate address d embedded in it.
NoCode == <<>>
Raw(i) == <<"raw", i>>
Eip1167(d) == <<"eip1167", d>>

\* boa.util.eip1167.is_eip1167_contract: the bytes match the template
is_eip1167_contract(bytecode) == Len(bytecode) = 2 /\ bytecode[1] = "eip1167"

\* boa.util.eip1167.extract_eip1167_address: the embedded delegate address
extract_eip1167_address(bytecode) == bytecode[2]

\* A handler (a contract object): the deployer it came from, the address it
\* is bound to and its created_from field (0 when unset).
Handler(deployer, address) ==
    [deployer |-> deployer, address |-> address, created_from |-> 0]

\* handler.deployer.at(address): a handler of the same deployer at address
Deployer_at(handler, address) == Handler(handler.deployer, address)

\* a registry in which the first handler registered under a key stays
register_contract_KeepFirst(reg, codeNow, address, obj) ==
    [contracts     |-> IF address \in DOMAIN reg.contracts THEN reg.contracts
                       ELSE Put(reg.contracts, address, obj),
     code_registry |-> IF codeNow[address] \in DOMAIN reg.code_registry
                       THEN reg.code_registry
                       ELSE Put(reg.code_registry, codeNow[address], obj)]

\* Env.register_contract, on the canonical address; the registry as
\* [contracts, code_registry]
register_contract(reg, codeNow, address, obj) ==
    [contracts     |-> Put(reg.contracts, address, obj),
     code_registry |-> Put(reg.code_registry, codeNow[address], obj)]

\* Env.register_blueprint
register_blueprint(reg, bytecode, obj) ==
    [contracts     |-> reg.contracts,
     code_registry |-> Put(reg.code_registry, bytecode, obj)]

\* Env._lookup_contract_fast: dict.get, None when absent
_lookup_contract_fast(contracts, address) ==
    IF address \in DOMAIN contracts THEN Some(contracts[address]) ELSE None

Registry == [contracts |-> _contracts, code_registry |-> _code_registry]

-----------------------------------------------------------------------------
(* titanoboa_computation *)

_SLOW == 0
_FAST == 1
_LUDICROUS == 2

\* titanoboa_computation.apply_create_message, after the engine's
\* apply_create_message returned: the registry it leaves.  codeNow is the
\* code of every account at that moment.
apply_create_message(reg, codeNow, msg) ==
    LET proxy            == is_eip1167_contract(msg.code)
        contract_address == IF proxy THEN extract_eip1167_address(msg.code)
                            ELSE msg.storage_address
        bytecode         == IF proxy THEN codeNow[contract_address] ELSE msg.code
    IN  IF bytecode \in DOMAIN reg.code_registry
        THEN LET target == [Deployer_at(reg.code_registry[bytecode], contract_address)
                               EXCEPT !.created_from = msg.sender]
                 r == register_contract(reg, codeNow, contract_address, target)
             IN  [contracts |-> r.contracts, code_registry |-> r.code_registry,
                  registered |-> <<[address |-> Some(contract_address),
                                    bytecode |-> codeNow[contract_address],
                                    obj |-> target]>>]
        ELSE [contracts |-> reg.contracts, code_registry |-> reg.code_registry,
              registered |-> <<>>]

\* a dispatch that takes the native path in every speed mode
apply_computation_path_AnySpeed(contracts, speed, addr) ==
    LET contract == IF addr # CREATE_CONTRACT_ADDRESS
                    THEN _lookup_contract_fast(contracts, addr) ELSE None
    IN  IF contract = None THEN "interpreter" ELSE "native"

\* titanoboa_computation.apply_computation: which path runs the message
apply_computation_path(contracts, speed, addr) ==
    LET contract == IF addr # CREATE_CONTRACT_ADDRESS
                    THEN _lookup_contract_fast(contracts, addr) ELSE None
    IN  IF contract = None \/ speed = _SLOW THEN "interpreter" ELSE "native"

\* titanoboa_computation.apply_computation, the native path: how the frame
\* ends when ir_executor.exec returns, raises Halt or raises a VMError (which
\* the computation's context manager records as the frame's error)
apply_computation_native(signal) ==
    IF signal = "Halt" THEN [raised |-> "none", is_error |-> FALSE]
    ELSE IF signal = "VMError" THEN [raised |-> "none", is_error |-> TRUE]
    ELSE [raised |-> "none", is_error |-> FALSE]

-----------------------------------------------------------------------------
(* Env: registration, deploy_code, execute_code *)

\* the depth at which the interpreter raises RecursionError
MaxRecursion == 3

\* Env.register_contract
RegisterContract(address, obj) ==
    /\ LET a == Address_new(_cache, address)
           r == register_contract(Registry, code, a.obj.canonical_address, obj)
       IN  /\ _cache' = a.cache
           /\ _contracts' = r.contracts
           /\ _code_registry' = r.code_registry
    /\ last' = [op |-> "register_contract"]
    /\ UNCHANGED <<patchVars, engineVars, anchorVars, _precompiles, modeVars,
                   observedVars, sha3_trace, gasVars, counterVars,
                   execution_context2, frameVars>>

\* Env.register_blueprint
RegisterBlueprint(bytecode, obj) ==
    /\ LET r == register_blueprint(Registry, bytecode, obj)
       IN  /\ _contracts' = r.contracts
           /\ _code_registry' = r.code_registry
    /\ last' = [op |-> "register_blueprint"]
    /\ UNCHANGED <<patchVars, engineVars, anchorVars, addressVars, modeVars,
                   observedVars, sha3_trace, gasVars, counterVars,
                   execution_context2, frameVars>>

\* Env.lookup_contract
lookup_contract(contracts, cache, address) ==
    _lookup_contract_fast(contracts, Address_new(cache, address).obj.canonical_address)

\* Env.lookup_contract
LookupContract(address) ==
    /\ _cache' = Address_new(_cache, address).cache
    /\ last' = [op |-> "lookup_contract",
                canonical |-> Address_new(_cache, address).obj.canonical_address,
                ret |-> lookup_contract(_contracts, _cache, address)]
    /\ UNCHANGED <<patchVars, engineVars, anchorVars, _precompiles, registryVars,
                   modeVars, observedVars, sha3_trace, gasVars, counterVars,
                   execution_context2, frameVars, registrations>>

\* Env._speed = mode
SetSpeed(mode) ==
    /\ _speed' = mode
    /\ last' = [op |-> "set_speed"]
    /\ UNCHANGED <<patchVars, engineVars, anchorVars, addressVars, registryVars,
                   _coverage_enabled, observedVars,
                   sha3_trace, gasVars, counterVars, execution_context2, frameVars,
                   registrations>>

\* Env._coverage_enabled = flag
SetCoverage(flag) ==
    /\ _coverage_enabled' = flag
    /\ last' = [op |-> "set_coverage"]
    /\ UNCHANGED <<patchVars, engineVars, anchorVars, addressVars, registryVars,
                   _speed, observedVars,
                   sha3_trace, gasVars, counterVars, execution_context2, frameVars,
                   registrations>>

\* a target that is always derived from the sender's nonce
deploy_target_IgnoreOverride(sender, override_address, nonceNow) ==
    [target |-> generate_contract_address(sender, nonceNow[sender]),
     nonce  |-> [nonceNow EXCEPT ![sender] = @ + 1]]

\* Env.deploy_code, up to the creation message: the target address and the
\* nonces after the increment
deploy_target(sender, override_address, nonceNow) ==
    IF override_address # None
    THEN [target |-> override_address[1], nonce |-> nonceNow]
    ELSE [target |-> generate_contract_address(sender, nonceNow[sender]),
          nonce  |-> [nonceNow EXCEPT ![sender] = @ + 1]]

\* Env.deploy_code.  The engine's apply_create_message either fails and
\* reverts its own changes, or stores the output as the code of the target
\* and increments the target's nonce.
DeployCode(sender, bytecode, override_address, out) ==
    LET t    == deploy_target(sender, override_address, nonce)
        msg  == [sender |-> sender, code |-> bytecode, storage_address |-> t.target,
                 code_address |-> CREATE_CONTRACT_ADDRESS]
        code1  == IF out.is_error THEN code
                  ELSE [code EXCEPT ![t.target] = out.output]
        nonce1 == IF out.is_error THEN t.nonce
                  ELSE [t.nonce EXCEPT ![t.target] = @ + 1]
        r    == apply_create_message(Registry, code1, msg)
    IN  /\ override_address = None => nonce[sender] <= MaxNonce
        /\ nonce1[t.target] <= MaxNonce + 1
        /\ code' = code1
        /\ nonce' = nonce1
        /\ _contracts' = r.contracts
        /\ _code_registry' = r.code_registry
        /\ deploys' = IF override_address = None
                      THEN Append(deploys, <<sender, t.target>>) ELSE deploys
        /\ last' = [op |-> "deploy_code", sender |-> sender, code |-> bytecode,
                    override_address |-> override_address, target |-> t.target,
                    path |-> apply_computation_path(_contracts, _speed,
                                                    msg.code_address),
                    is_error |-> out.is_error,
                    raised |-> IF out.is_error THEN "VMError" ELSE "none",
                    ret |-> IF out.is_error THEN None
                            ELSE Some(<<t.target, out.output>>),
                    registered |-> r.registered]
        /\ UNCHANGED <<patchVars, balance, anchorVars, addressVars, modeVars,
                       sstore_trace, executed, sha3_trace, gasVars, counterVars,
                       execution_context2, frameVars>>

\* Env._hook_trace_computation on a computation, given as the sequence of
\* its child computations; depth is the number of calls of it on the stack
RECURSIVE _hook_trace_computation(_, _)
_hook_trace_computation(computation, depth) ==
    IF depth > MaxRecursion THEN "RecursionError"
    ELSE IF \E i \in 1..Len(computation) :
                _hook_trace_computation(computation, depth + 1) = "RecursionError"
    THEN "RecursionError"
    ELSE "none"

\* Env.execute_code.  signal is how the native handler or the interpreter
\* ends; children is the tree of child computations the run leaves.
ExecuteCode(to_address, signal, children) ==
    LET path == apply_computation_path(_contracts, _speed, to_address)
        c    == IF path = "native" THEN apply_computation_native(signal)
                ELSE [raised |-> "none", is_error |-> signal = "VMError"]
        hook == IF _coverage_enabled THEN _hook_trace_computation(children, 1)
                ELSE "none"
        raised == IF c.raised # "none" THEN c.raised ELSE hook
    IN  /\ path = "interpreter" => signal # "Halt"
        /\ last' = [op |-> "execute_code", to |-> to_address, path |-> path,
                    signal |-> signal, is_error |-> c.is_error,
                    children |-> children, raised |-> raised,
                    ret |-> IF raised = "none"
                            THEN Some([is_error |-> c.is_error]) ELSE None]
        /\ UNCHANGED <<patchVars, engineVars, anchorVars, addressVars, registryVars,
                       modeVars, observedVars,
                   sha3_trace, gasVars, counterVars, execution_context2, frameVars,
                   registrations>>

-----------------------------------------------------------------------------
(* Storage-write tracing *)

\* operands read in the opposite order
SstoreTracer_operands_Swapped(stack) ==
    [value |-> stack[Len(stack)], slot |-> stack[Len(stack) - 1]]

\* SstoreTracer.__call__: value, slot = computation._stack.values[-2:]
SstoreTracer_operands(stack) ==
    [value |-> stack[Len(stack) - 1], slot |-> stack[Len(stack)]]

\* Env._trace_sstore
_trace_sstore(trace, account, slot) ==
    LET t == IF account \in DOMAIN trace THEN trace ELSE Put(trace, account, {})
    IN  [t EXCEPT ![account] = @ \cup {slot}]

\* the SSTORE the hook wraps: it pops the key and the value, and fails with
\* InsufficientStack when the stack holds fewer than two items; signal is how
\* the write ends otherwise
sstore(stack, signal) ==
    IF Len(stack) < 2 THEN [raised |-> "InsufficientStack"]
    ELSE IF signal = "VMError" THEN [raised |-> "VMError"]
    ELSE [raised |-> "none"]

\* SstoreTracer.__call__ on a frame whose storage address is account: the
\* two-name unpacking of values[-2:] raises ValueError on a stack of fewer than
\* two items; otherwise the slot is traced and the wrapped operation is called
SstoreTracer_call(trace, account, stack, signal) ==
    IF Len(stack) < 2
    THEN [raised |-> "ValueError", delegated |-> 0, sstore_trace |-> trace]
    ELSE [raised |-> sstore(stack, signal).raised, delegated |-> 1,
          sstore_trace |->
              _trace_sstore(trace, account, SstoreTracer_operands(stack).slot)]

\* SSTORE reached by a frame whose storage address is account.  SSTORE takes
\* its key from the top of the stack and its value from below it.
SstoreHook(account, stack, signal) ==
    LET r == SstoreTracer_call(sstore_trace, account, stack, signal)
    IN  /\ sstore_trace' = r.sstore_trace
        /\ executed' = IF Len(stack) < 2 THEN executed
                       ELSE executed \cup {<<account, stack[Len(stack)]>>}
        /\ last' = [op |-> "sstore", account |-> account, stack |-> stack,
                    raised |-> r.raised, delegated |-> r.delegated,
                    wrapped |-> sstore(stack, signal).raised]
        /\ UNCHANGED <<patchVars, engineVars, anchorVars, addressVars, registryVars,
                       modeVars, deploys, sha3_trace, gasVars, counterVars,
                       execution_context2, frameVars, registrations>>

-----------------------------------------------------------------------------
(* Hash-preimage tracing *)

\* the size Sha3PreimageTracer records at: two 32-byte words
PreimageSize == 64

\* the memories a frame is run with
Memories == {0, 1}

\* the byte at index i of memory m
MemByte(m, i) == (i * (m + 1) + (i \div 32)) % 3

\* Memory.read_bytes
read_bytes(m, offset, size) == [i \in 1..size |-> MemByte(m, offset + i - 1)]

\* the hash of a byte string, free of collisions
keccak(bytes) == <<"keccak", bytes>>

\* the SHA3 the hook wraps: it pops the start position and then the size and
\* pushes the hash of that part of memory; it fails with InsufficientStack
\* when the stack holds fewer than two items
sha3(stack, m, signal) ==
    IF Len(stack) < 2 THEN [raised |-> "InsufficientStack", stack |-> stack]
    ELSE IF signal = "VMError" THEN [raised |-> "VMError", stack |-> stack]
    ELSE [raised |-> "none",
          stack |-> Append(SubSeq(stack, 1, Len(stack) - 2),
                           keccak(read_bytes(m, stack[Len(stack)],
                                             stack[Len(stack) - 1])))]

\* operands read in the opposite order
Sha3PreimageTracer_operands_Swapped(stack) ==
    [size |-> stack[Len(stack)], offset |-> stack[Len(stack) - 1]]

\* Sha3PreimageTracer.__call__: size, offset = computation._stack.values[-2:]
Sha3PreimageTracer_operands(stack) ==
    [size |-> stack[Len(stack) - 1], offset |-> stack[Len(stack)]]

\* Env._trace_sha3_preimage
_trace_sha3_preimage(trace, preimage, image) == Put(trace, image, preimage)

\* Sha3PreimageTracer.__call__: the two-name unpacking of values[-2:] raises
\* ValueError on a stack of fewer than two items; otherwise the wrapped
\* operation is called, and when it returned and the size is 64 the preimage
\* is read from memory and the image from the top of the stack
Sha3PreimageTracer_call(trace, stack, m, signal) ==
    IF Len(stack) < 2
    THEN [raised |-> "ValueError", delegated |-> 0, sha3_trace |-> trace]
    ELSE LET o == Sha3PreimageTracer_operands(stack)
             r == sha3(stack, m, signal)
         IN  IF r.raised # "none"
             THEN [raised |-> r.raised, delegated |-> 1, sha3_trace |-> trace]
             ELSE IF o.size # PreimageSize
             THEN [raised |-> "none", delegated |-> 1, sha3_trace |-> trace]
             ELSE [raised |-> "none", delegated |-> 1,
                   sha3_trace |->
                       _trace_sha3_preimage(trace,
                                            read_bytes(m, o.offset, o.size),
                                            r.stack[Len(r.stack)])]

\* SHA3 reached by a frame whose memory is m
Sha3Hook(stack, m, signal) ==
    LET r == Sha3PreimageTracer_call(sha3_trace, stack, m, signal)
        w == sha3(stack, m, signal)
    IN  /\ sha3_trace' = r.sha3_trace
        /\ last' = [op |-> "sha3", stack |-> stack, m |-> m,
                    raised |-> r.raised, delegated |-> r.delegated,
                    wrapped |-> w.raised,
                    image |-> IF w.raised = "none"
                              THEN Some(w.stack[Len(w.stack)]) ELSE None]
        /\ UNCHANGED <<patchVars, engineVars, anchorVars, addressVars, registryVars,
                       modeVars, observedVars, gasVars, counterVars,
                       execution_context2, frameVars, registrations>>

-----------------------------------------------------------------------------
(* Env: generated addresses and aliases *)

\* the address is made from the counter as it was before the increment
generate_address_PostIncrement(counter, aliases, cache, alias) ==
    LET r == Address_new(cache, [kind |-> "bytes", addr |-> counter])
    IN  [_address_counter |-> counter + 1,
         t |-> r.obj,
         _cache |-> r.cache,
         _aliases |-> IF alias # None
                      THEN Put(aliases, r.obj.canonical_address, alias[1])
                      ELSE aliases]

\* Env.generate_address: the counter is incremented, the address is made from
\* its 20 big-endian bytes, and Env.alias is called if an alias is given
generate_address(counter, aliases, cache, alias) ==
    LET c == counter + 1
        r == Address_new(cache, [kind |-> "bytes", addr |-> c])
    IN  [_address_counter |-> c,
         t |-> r.obj,
         _cache |-> r.cache,
         _aliases |-> IF alias # None
                      THEN Put(aliases, r.obj.canonical_address, alias[1])
                      ELSE aliases]

\* Env.lookup_alias on the canonical address: the name, or KeyError
lookup_alias(aliases, canonical) ==
    IF canonical \in DOMAIN aliases THEN Some(aliases[canonical]) ELSE None

\* Env.generate_address
GenerateAddress(alias) ==
    /\ LET r == generate_address(_address_counter, _aliases, _cache, alias)
       IN  /\ _address_counter' = r._address_counter
           /\ _aliases' = r._aliases
           /\ _cache' = r._cache
           /\ generated' = Append(generated, r.t.canonical_address)
           /\ last' = [op |-> "generate_address", alias |-> alias, t |-> r.t]
    /\ UNCHANGED <<patchVars, engineVars, anchorVars, _precompiles, registryVars,
                   modeVars, observedVars, sha3_trace, gasVars,
                   execution_context2, frameVars, registrations>>

\* Env.alias
Alias(address, name) ==
    /\ LET r == Address_new(_cache, address)
       IN  /\ _cache' = r.cache
           /\ _aliases' = Put(_aliases, r.obj.canonical_address, name)
    /\ last' = [op |-> "alias"]
    /\ UNCHANGED <<patchVars, engineVars, anchorVars, _precompiles, registryVars,
                   modeVars, observedVars, sha3_trace, gasVars, _address_counter,
                   generated, execution_context2, frameVars, registrations>>

\* Env.lookup_alias
LookupAlias(address) ==
    /\ LET r == Address_new(_cache, address)
       IN  /\ _cache' = r.cache
           /\ last' = [op |-> "lookup_alias",
                       canonical |-> r.obj.canonical_address,
                       ret |-> lookup_alias(_aliases, r.obj.canonical_address)]
    /\ UNCHANGED <<patchVars, engineVars, anchorVars, _precompiles, registryVars,
                   modeVars, observedVars, sha3_trace, gasVars, counterVars,
                   execution_context2, frameVars, registrations>>

\* Env.__init__: self.eoa = self.generate_address("eoa")
EnvEoa == generate_address(_initial_address_counter, EmptyDict,
                           ModuleLoaded.cache, Some("eoa"))

-----------------------------------------------------------------------------
(* titanoboa_computation: the frame *)

\* the precompile table the engine's computation class holds at class level,
\* keyed by the raw address bytes
EnginePrecompiles == Put(EmptyDict, [kind |-> "bytes", addr |-> 1], "ecrecover")

\* dict.update
dict_update(d, e) ==
    [k \in DOMAIN d \cup DOMAIN e |-> IF k \in DOMAIN e THEN e[k] ELSE d[k]]

\* the class-level table is updated in place and the frame refers to it
titanoboa_computation_init_InPlace(cls_precompiles, registry) ==
    [class_precompiles |-> dict_update(cls_precompiles, registry),
     frame |-> [_precompiles |-> dict_update(cls_precompiles, registry),
                _child_pcs |-> <<>>, children |-> <<>>]]

\* titanoboa_computation.__init__: self._precompiles is a copy of the class
\* attribute, updated with the module's _precompiles; self._child_pcs = [];
\* the engine's constructor starts the frame without children
titanoboa_computation_init(cls_precompiles, registry) ==
    [class_precompiles |-> cls_precompiles,
     frame |-> [_precompiles |-> dict_update(cls_precompiles, registry),
                _child_pcs |-> <<>>, children |-> <<>>]]

\* a frame is constructed
NewFrame ==
    /\ LET r == titanoboa_computation_init(class_precompiles, _precompiles)
       IN  /\ class_precompiles' = r.class_precompiles
           /\ frames' = Append(frames, r.frame)
    /\ last' = [op |-> "titanoboa_computation"]
    /\ UNCHANGED <<patchVars, engineVars, anchorVars, addressVars, registryVars,
                   modeVars, observedVars, sha3_trace, gasVars, counterVars,
                   execution_context2, registrations>>

\* the program counter is appended before the engine's step is called
add_child_computation_RecordFirst(frame, child_computation, pc, raises) ==
    IF raises
    THEN [raised |-> "error", frame |-> [frame EXCEPT !._child_pcs = Append(@, pc)]]
    ELSE [raised |-> "none",
          frame |-> [frame EXCEPT !.children = Append(@, child_computation),
                                  !._child_pcs = Append(@, pc)]]

\* titanoboa_computation.add_child_computation: the engine's
\* add_child_computation is called, which appends the child to children, and
\* after it returned the program counter is appended; raises says that the
\* engine's step raises
add_child_computation(frame, child_computation, pc, raises) ==
    IF raises
    THEN [raised |-> "error", frame |-> frame]
    ELSE [raised |-> "none",
          frame |-> [frame EXCEPT !.children = Append(@, child_computation),
                                  !._child_pcs = Append(@, pc)]]

\* frame i makes a nested call at program counter pc
AddChildComputation(i, child_computation, pc, raises) ==
    /\ i \in 1..Len(frames)
    /\ LET r == add_child_computation(frames[i], child_computation, pc, raises)
       IN  /\ frames' = [frames EXCEPT ![i] = r.frame]
           /\ last' = [op |-> "add_child_computation", frame |-> i,
                       child_computation |-> child_computation, pc |-> pc,
                       raised |-> r.raised]
    /\ UNCHANGED <<patchVars, engineVars, anchorVars, addressVars, registryVars,
                   modeVars, observedVars, sha3_trace, gasVars, counterVars,
                   execution_context2, class_precompiles, registrations>>

-----------------------------------------------------------------------------
(* The state after Env() *)

\* the execution context and the accounts of a VM taken from the chain head
HeadContext == [a \in ExcAttrs |-> 0]
HeadBalance == [a \in AllAddrs |-> 0]
HeadNonce   == [a \in AllAddrs |-> 0]
HeadCode    == [a \in AllAddrs |-> NoCode]

Init ==
    /\ execution_context = HeadContext
    /\ spurious_dragon = [a \in CmpAttrs |-> 0]
    /\ balance = HeadBalance
    /\ nonce = HeadNonce
    /\ code = HeadCode
    /\ checkpoints = <<>>
    /\ anchors = <<>>
    /\ entered = <<>>
    /\ steps = 0
    /\ _cache = EnvEoa._cache
    /\ _precompiles = Put(EmptyDict, ModuleLoaded.obj, "console_log")
    /\ _contracts = EmptyDict
    /\ _code_registry = EmptyDict
    /\ _speed = 0
    /\ _coverage_enabled = FALSE
    /\ sstore_trace = EmptyDict
    /\ executed = {}
    /\ deploys = <<>>
    /\ sha3_trace = EmptyDict
    /\ _gas_meter_class = "GasMeter"
    /\ gas_scopes = <<>>
    /\ gas_entered = <<>>
    /\ _address_counter = EnvEoa._address_counter
    /\ _aliases = EnvEoa._aliases
    /\ generated = <<EnvEoa.t.canonical_address>>
    /\ execution_context2 = HeadContext
    /\ class_precompiles = EnginePrecompiles
    /\ frames = <<>>
    /\ registrations = <<>>
    /\ last = [op |-> "init"]

\* Env._init_vm, called again on an environment (by fork): a new VM is taken
\* from the chain head, with its own state and execution context, and the
\* traces are emptied unless reset_traces is false
InitVm(reset_traces) ==
    /\ Len(anchors) = 0
    /\ execution_context' = HeadContext
    /\ balance' = HeadBalance
    /\ nonce' = HeadNonce
    /\ code' = HeadCode
    /\ sstore_trace' = IF reset_traces THEN EmptyDict ELSE sstore_trace
    /\ executed' = IF reset_traces THEN {} ELSE executed
    /\ sha3_trace' = IF reset_traces THEN EmptyDict ELSE sha3_trace
    /\ _gas_meter_class' = "GasMeter"
    /\ last' = [op |-> "_init_vm", reset_traces |-> reset_traces]
    /\ UNCHANGED <<spurious_dragon, anchorVars, addressVars, registryVars, modeVars,
                   deploys, gas_scopes, gas_entered, counterVars,
                   execution_context2, frameVars, registrations>>

-----------------------------------------------------------------------------
(* Env: the gas accounting strategy *)

\* GasMeter is the class default of titanoboa_computation; NoMeter and
\* ProfilingGasMeter are what disable_gas_metering and enable_gas_profiling set
GasMeterClasses == {"GasMeter", "NoMeter", "ProfilingGasMeter"}

\* the scope leaves the class default behind, as reset_gas_metering_behavior
gas_meter_class_finally_Reset(tmp) == "GasMeter"

\* Env.gas_meter_class, the finally clause: self.set_gas_meter_class(tmp)
gas_meter_class_finally(tmp) == tmp

\* Env.set_gas_meter_class, with enable_gas_profiling, disable_gas_metering
\* and reset_gas_metering_behavior which call it
SetGasMeterClass(cls) ==
    /\ _gas_meter_class' = cls
    /\ last' = [op |-> "set_gas_meter_class", cls |-> cls]
    /\ UNCHANGED <<patchVars, engineVars, anchorVars, addressVars, registryVars,
                   modeVars, observedVars, sha3_trace, gas_scopes, gas_entered,
                   counterVars, execution_context2, frameVars, registrations>>

\* Env.gas_meter_class up to its yield: tmp is read, then cls is set
GasMeterClassEnter(cls) ==
    /\ Len(gas_scopes) < MaxDepth
    /\ gas_scopes' = Append(gas_scopes, _gas_meter_class)
    /\ gas_entered' = Append(gas_entered, _gas_meter_class)
    /\ _gas_meter_class' = cls
    /\ last' = [op |-> "gas_meter_class_enter", cls |-> cls]
    /\ UNCHANGED <<patchVars, engineVars, anchorVars, addressVars, registryVars,
                   modeVars, observedVars, sha3_trace, counterVars,
                   execution_context2, frameVars, registrations>>

\* Env.gas_meter_class from its yield on: the body returned or raised
GasMeterClassExit(raised) ==
    /\ Len(gas_scopes) > 0
    /\ _gas_meter_class' = gas_meter_class_finally(gas_scopes[Len(gas_scopes)])
    /\ gas_scopes' = SubSeq(gas_scopes, 1, Len(gas_scopes) - 1)
    /\ gas_entered' = SubSeq(gas_entered, 1, Len(gas_entered) - 1)
    /\ last' = [op |-> "gas_meter_class_exit", raised |-> raised,
                before |-> _gas_meter_class]
    /\ UNCHANGED <<patchVars, engineVars, anchorVars, addressVars, registryVars,
                   modeVars, observedVars, sha3_trace, counterVars,
                   execution_context2, frameVars, registrations>>

-----------------------------------------------------------------------------
(* A second environment *)

\* what the VMPatcher of a second Env() patches: the execution context of that
\* environment's own VM, and the spurious_dragon module, of which the process
\* has one
OtherPatched ==
    [execution_context |-> execution_context2, spurious_dragon |-> spurious_dragon]

\* other.vm.patch.<name> = value
OtherPatchSet(name, value) ==
    /\ LET r == VMPatcher_setattr(OtherPatched, name, value)
       IN  /\ execution_context2' = r.p.execution_context
           /\ spurious_dragon' = r.p.spurious_dragon
           /\ last' = [op |-> "other_setattr", name |-> name, err |-> r.err,
                       value |-> value]
    /\ UNCHANGED <<execution_context, engineVars, anchorVars, addressVars,
                   registryVars, modeVars, observedVars, sha3_trace, gasVars,
                   counterVars, frameVars, registrations>>

-----------------------------------------------------------------------------
(* Anchor scopes around balance and parameter writes *)

\* a state-writing call, counted against MaxSteps
Counted == steps < MaxSteps /\ steps' = steps + 1

NextAnchor ==
    \/ \E a \in Accounts, v \in Values : Counted /\ SetBalance(a, v)
    \/ \E n \in PatchNames \cup UnknownNames, v \in Values : Counted /\ PatchSet(n, v)
    \/ UNCHANGED steps /\ AnchorEnter
    \/ \E raised \in BOOLEAN : UNCHANGED steps /\ AnchorExit(raised)

SpecAnchor == Init /\ [][NextAnchor]_vars

\* C1: when an Env.anchor() scope is left, normally or because its body
\* raised, every balance and every patch parameter has the value it had when
\* the scope was entered.
C1_AnchorRestores ==
    [][Len(anchors') < Len(anchors) =>
          /\ balance' = entered[Len(entered)].balance
          /\ execution_context' = entered[Len(entered)].execution_context
          /\ spurious_dragon' = entered[Len(entered)].spurious_dragon]_vars

\* a scope in which a balance or a parameter was changed has been left
\* because its body raised
C1_Witness ==
    /\ last.op = "anchor_exit"
    /\ last.raised
    /\ last.changed

\* C17: Env.anchor() takes the engine snapshot first and the patch snapshot
\* second, and releases them in the opposite order, the patch restore first
\* and the engine revert second, the revert also when the body raised; the
\* exit of an inner scope restores the values held at its own entry, the
\* exit of the outer scope those held at the outer entry.
C17_AnchorOrder ==
    [][/\ last'.op = "anchor_enter" =>
              /\ last'.events = <<"state.snapshot", "patch.snap">>
              /\ anchors'[Len(anchors')].snapshot_id = Len(checkpoints')
       /\ last'.op = "anchor_exit" =>
              /\ last'.events = <<"patch.restore", "state.revert">>
              /\ Len(checkpoints') = Len(entered')
              /\ [balance |-> balance', execution_context |-> execution_context',
                  spurious_dragon |-> spurious_dragon'] = entered[Len(entered)]]_vars

\* an inner scope was left because its body raised, after a change inside it,
\* and the values restored are those of its own entry, not those of the entry
\* of the outer scope, which is still open
C17_Witness ==
    /\ last.op = "anchor_exit"
    /\ last.raised
    /\ last.changed
    /\ Len(anchors) = 1
    /\ [balance |-> balance, execution_context |-> execution_context,
        spurious_dragon |-> spurious_dragon] # entered[1]

-----------------------------------------------------------------------------
(* Reading and writing patch parameters by name *)

NextParam ==
    \/ \E n \in PatchNames \cup UnknownNames : UNCHANGED steps /\ PatchGet(n)
    \/ \E n \in PatchNames \cup UnknownNames, v \in Values :
           UNCHANGED steps /\ PatchSet(n, v)

SpecParam == Init /\ [][NextParam]_vars

\* C3: reading and writing a parameter whose name is not one of the eight
\* recognized names both fail with an error, and the failed write changes no
\* parameter.
C3_UnknownNameFails ==
    [][(last'.op \in {"getattr", "setattr"} /\ last'.name \notin PatchNames) =>
          /\ last'.err = "AttributeError"
          /\ UNCHANGED patchVars]_vars

-----------------------------------------------------------------------------
(* Time travel *)

SecondsArgs == {None, Some(0), Some(7), Some(120)}
BlocksArgs  == {None, Some(0), Some(3)}
DeltaArgs   == {0, 5, 12}

NextTime ==
    \E s \in SecondsArgs, b \in BlocksArgs, d \in DeltaArgs :
        UNCHANGED steps /\ TimeTravel(s, b, d)

SpecTime == Init /\ [][NextTime]_vars

\* C5: time_travel given both seconds and blocks, or neither, fails with
\* ValueError (a value of 0 is a supplied value) and leaves timestamp and
\* block number as they were.
C5_BothOrNeitherFails ==
    [][(last'.op = "time_travel" /\ (last'.seconds = None) = (last'.blocks = None)) =>
          /\ last'.err = "ValueError"
          /\ UNCHANGED patchVars]_vars

\* time_travel(seconds=0, blocks=3) has failed
C5_Witness ==
    /\ last.op = "time_travel"
    /\ last.seconds = Some(0)
    /\ last.blocks = Some(3)
    /\ last.err = "ValueError"

\* C6: a time_travel that succeeds adds s to the timestamp and s div
\* blockDelta to the block number when given seconds=s, adds b to the block
\* number and b * blockDelta to the timestamp when given blocks=b, and changes
\* no other patch parameter; seconds=120 with blockDelta=12 gives +120, +10.
C6_TimeTravelAdvance ==
    [][(last'.op = "time_travel" /\ last'.err = "none") =>
          LET d  == last'.block_delta
              dt == execution_context'["_timestamp"] - execution_context["_timestamp"]
              db == execution_context'["_block_number"]
                        - execution_context["_block_number"]
          IN  /\ last'.seconds # None =>
                     dt = last'.seconds[1] /\ db = last'.seconds[1] \div d
              /\ last'.blocks # None =>
                     db = last'.blocks[1] /\ dt = last'.blocks[1] * d
              /\ (last'.seconds = Some(120) /\ d = 12) => (dt = 120 /\ db = 10)
              /\ \A a \in ExcAttrs \ {"_timestamp", "_block_number"} :
                     execution_context'[a] = execution_context[a]
              /\ spurious_dragon' = spurious_dragon]_vars

\* time_travel(seconds=120, block_delta=12) has succeeded
C6_Witness ==
    /\ last.op = "time_travel"
    /\ last.seconds = Some(120)
    /\ last.block_delta = 12
    /\ last.err = "none"
    /\ execution_context["_block_number"] = 10

-----------------------------------------------------------------------------
(* The precompile table *)

PrecompileAddrs == {CONSOLE_ADDRESS, OtherPrecompileAddress}
PrecompileInputs ==
    AddressInputs(PrecompileAddrs) \cup
        {[kind |-> "Address", obj |-> o] : o \in AddressObjects}
PrecompileHandlers == {"h1", "h2"}

NextPrecompile ==
    \/ \E a \in PrecompileInputs, fn \in PrecompileHandlers, force \in BOOLEAN :
           Counted /\ RegisterRawPrecompile(a, fn, force)
    \/ \E a \in PrecompileInputs, force \in BOOLEAN :
           Counted /\ DeregisterRawPrecompile(a, force)

SpecPrecompile == Init /\ [][NextPrecompile]_vars

\* the entries of the table bound for the canonical address a
EntriesFor(table, a) == {o \in DOMAIN table : o.canonical_address = a}

\* C4: for an address already bound in the precompile table, in whichever
\* representation it is given, register_raw_precompile without force fails
\* and leaves the table unchanged, and with force replaces the handler so
\* that exactly one entry for the address remains.
C4_DuplicateRejected ==
    [][(/\ last'.op = "register_raw_precompile"
        /\ EntriesFor(_precompiles, last'.canonical) # {}) =>
          IF last'.force
          THEN /\ last'.err = "none"
               /\ Cardinality(EntriesFor(_precompiles', last'.canonical)) = 1
               /\ \A o \in EntriesFor(_precompiles', last'.canonical) :
                      _precompiles'[o] = last'.fn
          ELSE /\ last'.err = "ValueError"
               /\ _precompiles' = _precompiles]_vars

-----------------------------------------------------------------------------
(* Deploying and calling contracts *)

\* number of registrations and deploys in one behaviour
MaxCalls == 3

CountedCall == steps < MaxCalls /\ steps' = steps + 1

\* the registrations of a behaviour are kept, or not
Logged(entries) == registrations' = registrations \o entries
NotLogged == UNCHANGED registrations

Implementation == generate_contract_address(_initial_address_counter + 1, 0)

Deployers == {"A", "B"}
InitCodes == {Raw(1), Eip1167(Implementation)}
Outputs == {Raw(2), Raw(3)}
CreateOutcomes ==
    {[is_error |-> TRUE, output |-> NoCode]} \cup
        {[is_error |-> FALSE, output |-> c] : c \in Outputs}
Overrides == {None, Some(_initial_address_counter + 2)}
Signals == {"return", "Halt", "VMError"}
Children == {<<>>, << <<>> >>, << <<>>, << <<>> >> >>}
Callees == {Implementation, _initial_address_counter + 2}

NextDeploy ==
    \/ \E a \in {Implementation}, d \in Deployers :
           CountedCall /\ NotLogged
               /\ RegisterContract([kind |-> "bytes", addr |-> a], Handler(d, a))
    \/ \E b \in {Raw(1)}, d \in Deployers :
           CountedCall /\ NotLogged /\ RegisterBlueprint(b, Handler(d, 0))
    \/ \E s \in Accounts, b \in InitCodes, o \in Overrides, out \in CreateOutcomes :
           CountedCall /\ NotLogged /\ DeployCode(s, b, o, out)

SpecDeploy == Init /\ [][NextDeploy]_vars

NextCall ==
    \/ \E a \in Callees, d \in Deployers :
           UNCHANGED steps /\ NotLogged
               /\ RegisterContract([kind |-> "bytes", addr |-> a], Handler(d, a))
    \/ \E out \in CreateOutcomes :
           CountedCall /\ NotLogged
               /\ DeployCode(_initial_address_counter + 1, Raw(1), None, out)
    \/ \E mode \in {_SLOW, _FAST, _LUDICROUS} : UNCHANGED steps /\ SetSpeed(mode)
    \/ \E flag \in BOOLEAN : UNCHANGED steps /\ SetCoverage(flag)
    \/ \E a \in Callees, sig \in Signals, ch \in Children :
           UNCHANGED steps /\ ExecuteCode(a, sig, ch)

SpecCall == Init /\ [][NextCall]_vars

\* C2: a successful creation of a minimal proxy at a new address P, whose
\* delegate address D holds bytecode with a registered handler, leaves a
\* handler bound at P: the registered handler rebound to P, with created_from
\* the creating address.
C2_ProxyHandlerAtProxy ==
    [][(/\ last'.op = "deploy_code"
        /\ ~last'.is_error
        /\ is_eip1167_contract(last'.code)
        /\ last'.target \notin DOMAIN _contracts
        /\ extract_eip1167_address(last'.code) # last'.target
        /\ code'[extract_eip1167_address(last'.code)] \in DOMAIN _code_registry) =>
          LET P == last'.target
              D == extract_eip1167_address(last'.code)
          IN  /\ P \in DOMAIN _contracts'
              /\ _contracts'[P].deployer = _code_registry[code'[D]].deployer
              /\ _contracts'[P].address = P
              /\ _contracts'[P].created_from = last'.sender]_vars

\* C8 as stated: every deploy increments the sender's nonce by exactly one,
\* the target is derived from the sender and the nonce before the increment
\* unless an override address is given, and is the override address then.
C8_EveryDeployIncrements ==
    [][last'.op = "deploy_code" =>
          /\ nonce'[last'.sender] = nonce[last'.sender] + 1
          /\ last'.target =
                 IF last'.override_address = None
                 THEN generate_contract_address(last'.sender, nonce[last'.sender])
                 ELSE last'.override_address[1]]_vars

\* the targets of the deploys sender has made without an override address
TargetsOf(sender) == {deploys[i][2] : i \in {j \in DOMAIN deploys : deploys[j][1] = sender}}

\* C8, amended: a deploy without override address increments the sender's
\* nonce by exactly one and targets the address derived from the sender and
\* the nonce before the increment, which no earlier deploy of that sender
\* without override targeted; a deploy with an override address targets the
\* override address and leaves the sender's nonce as it was (the override
\* address being another account than the sender).
C8_DeployNonce ==
    [][last'.op = "deploy_code" =>
          IF last'.override_address = None
          THEN /\ nonce'[last'.sender] = nonce[last'.sender] + 1
               /\ last'.target =
                      generate_contract_address(last'.sender, nonce[last'.sender])
               /\ last'.target \notin TargetsOf(last'.sender)
          ELSE /\ last'.target = last'.override_address[1]
               /\ last'.target # last'.sender =>
                      nonce'[last'.sender] = nonce[last'.sender]]_vars

\* a sender has deployed twice without override and then once with an
\* override address
C8_Witness ==
    /\ last.op = "deploy_code"
    /\ last.override_address # None
    /\ Cardinality(TargetsOf(last.sender)) >= 2

\* C7: deploy raises the engine's error whenever the creation ended in error
\* and returns (address, output) only on success; call never raises for a
\* failed invocation and returns the result object carrying the failure flag.
C7_CreateRaisesCallReturns ==
    /\ last.op = "deploy_code" =>
           IF last.is_error
           THEN last.raised = "VMError" /\ last.ret = None
           ELSE last.raised = "none" /\ last.ret # None /\ last.ret[1][1] = last.target
    /\ (last.op = "execute_code" /\ last.is_error) =>
           /\ last.raised = "none"
           /\ last.ret = Some([is_error |-> TRUE])

\* C19: with coverage tracing enabled, a call whose computation has a finite
\* tree of child computations runs to completion and returns its result: the
\* walk over the tree ends.
C19_CoverageWalkTerminates ==
    (last.op = "execute_code" /\ _coverage_enabled) =>
        /\ last.raised = "none"
        /\ last.ret = Some([is_error |-> last.is_error])

\* C9: a message takes the native path if and only if a handler is registered
\* at its code address and the speed mode is not slow; a creation message,
\* whose code address is empty, is interpreted; a Halt raised by the native
\* handler ends the frame without error and is not raised to the caller.
C9_NativeIffRegisteredAndNotSlow ==
    /\ last.op = "execute_code" =>
           /\ last.path = "native" <=>
                  (last.to \in DOMAIN _contracts /\ _speed # _SLOW)
           /\ last.path # "native" => last.path = "interpreter"
           /\ last.signal = "Halt" => (last.raised # "Halt" /\ ~last.is_error)
    /\ last.op = "deploy_code" => last.path = "interpreter"

\* a native handler has raised Halt in ludicrous mode
C9_Witness ==
    /\ last.op = "execute_code"
    /\ last.path = "native"
    /\ last.signal = "Halt"
    /\ _speed = _LUDICROUS

-----------------------------------------------------------------------------
(* Storage-write tracing *)

\* slots and values on the stack are drawn from 0..MaxSlot
MaxSlot == 2

Stacks == {<<>>} \cup [1..1 -> 0..MaxSlot] \cup [1..2 -> 0..MaxSlot]
              \cup [1..3 -> 0..MaxSlot]

NextTrace ==
    \/ \E a \in Accounts, st \in Stacks, sig \in {"return", "VMError"} :
           UNCHANGED steps /\ SstoreHook(a, st, sig)
    \/ \E reset_traces \in BOOLEAN : UNCHANGED steps /\ InitVm(reset_traces)

SpecTrace == Init /\ [][NextTrace]_vars

\* C10: the sstore trace of each account is exactly the set of slots a
\* storage write was executed on for that account since the traces were last
\* reset, and an account never written to has no entry.
C10_SstoreTraceExact ==
    /\ DOMAIN sstore_trace = {e[1] : e \in executed}
    /\ \A a \in DOMAIN sstore_trace :
           sstore_trace[a] = {e[2] : e \in {x \in executed : x[1] = a}}

\* slots 1 and 2 of one account were written, the last write a repeated,
\* zero-valued write to slot 1, and the other account was never written to
C10_Witness ==
    /\ last.op = "sstore"
    /\ last.stack = <<0, 1>>
    /\ sstore_trace[last.account] = {1, 2}
    /\ DOMAIN sstore_trace = {last.account}

-----------------------------------------------------------------------------
(* Hash-preimage tracing *)

\* the stacks SHA3 is reached with: the size below the start position
Sizes == {32, 64, 65}
Offsets == {0, 64}
Sha3Stacks == {<<>>, <<64>>} \cup {<<s, o>> : s \in Sizes, o \in Offsets}
                  \cup {<<64, s, o>> : s \in Sizes, o \in Offsets}

NextSha3 ==
    \/ \E st \in Sha3Stacks, m \in Memories, sig \in {"return", "VMError"} :
           UNCHANGED steps /\ Sha3Hook(st, m, sig)
    \/ \E reset_traces \in BOOLEAN : UNCHANGED steps /\ InitVm(reset_traces)

SpecSha3 == Init /\ [][NextSha3]_vars

\* C11: the sha3 hook records a pair exactly when the wrapped hash operation
\* completed and its size operand was 64; the recorded preimage is the 64
\* memory bytes at the offset operand and the key is the result the operation
\* left on the stack; in every other case the sha3 trace is unchanged.
C11_Sha3RecordsAt64 ==
    [][last'.op = "sha3" =>
           LET st == last'.stack
           IN  IF last'.wrapped = "none" /\ st[Len(st) - 1] = 64
               THEN sha3_trace' = Put(sha3_trace, last'.image[1],
                                      read_bytes(last'.m, st[Len(st)], 64))
               ELSE sha3_trace' = sha3_trace]_vars

\* a 64-byte hash at start position 64 completed and its pair is the only
\* entry of the trace
C11_Witness ==
    /\ last.op = "sha3"
    /\ last.stack = <<64, 64, 64>>
    /\ last.raised = "none"
    /\ DOMAIN sha3_trace = {last.image[1]}
    /\ sha3_trace[last.image[1]] = read_bytes(last.m, 64, 64)

-----------------------------------------------------------------------------
(* Scoped gas accounting strategies *)

NextGas ==
    \/ \E cls \in GasMeterClasses : UNCHANGED steps /\ SetGasMeterClass(cls)
    \/ \E cls \in GasMeterClasses : UNCHANGED steps /\ GasMeterClassEnter(cls)
    \/ \E raised \in BOOLEAN : UNCHANGED steps /\ GasMeterClassExit(raised)
    \/ \E reset_traces \in BOOLEAN : UNCHANGED steps /\ InitVm(reset_traces)

SpecGas == Init /\ [][NextGas]_vars

\* C12: the scoped override installs the given strategy for its body and, on
\* every exit, by return or by a raised error, restores the strategy that was
\* the default when the scope was entered; nested scopes exit last in, first
\* out, each restoring its own entry value.
C12_GasScopeRestores ==
    [][/\ last'.op = "gas_meter_class_enter" => _gas_meter_class' = last'.cls
       /\ last'.op = "gas_meter_class_exit" =>
              _gas_meter_class' = gas_entered[Len(gas_entered)]]_vars

\* an inner scope was left by a raised error while the strategy was
\* ProfilingGasMeter, and the strategy is again the NoMeter the outer scope
\* had installed
C12_Witness ==
    /\ last.op = "gas_meter_class_exit"
    /\ last.raised
    /\ last.before = "ProfilingGasMeter"
    /\ Len(gas_scopes) = 1
    /\ gas_entered[1] = "GasMeter"
    /\ _gas_meter_class = "NoMeter"

-----------------------------------------------------------------------------
(* Generated addresses *)

\* the number of addresses generated after the default sender
MaxGenerated == 2

AliasNames == {"alice", "bob"}

\* the addresses the counter reaches, each in every text representation
GeneratedInputs ==
    AddressInputs((_initial_address_counter + 1)
                      .. (_initial_address_counter + 1 + MaxGenerated))

NextAddress ==
    \/ \E alias \in {None} \cup {Some(n) : n \in AliasNames} :
           /\ Len(generated) <= MaxGenerated
           /\ UNCHANGED steps
           /\ GenerateAddress(alias)
    \/ \E a \in {x \in GeneratedInputs : x.kind = "bytes"}, n \in AliasNames :
           UNCHANGED steps /\ Alias(a, n)
    \/ \E a \in {x \in GeneratedInputs : x.kind # "checksum"} :
           UNCHANGED steps /\ LookupAlias(a)

SpecAddress == Init /\ [][NextAddress]_vars

\* C13: the address counter only increases; each generate_address returns
\* the address of the next counter value, so the addresses generated, the
\* default sender included, are distinct and consecutive; a given alias is
\* what lookup_alias returns for the address, and a call without alias
\* registers none.
C13_GeneratedConsecutive ==
    [][/\ _address_counter' >= _address_counter
       /\ \A i \in 1..Len(generated') :
              generated'[i] = _initial_address_counter + i
       /\ last'.op = "generate_address" =>
              /\ _address_counter' = _address_counter + 1
              /\ last'.t.canonical_address = _address_counter'
              /\ IF last'.alias = None
                 THEN _aliases' = _aliases
                 ELSE lookup_alias(_aliases', last'.t.canonical_address)
                          = last'.alias]_vars

\* two addresses were generated after the default sender, the first as alice
\* and the last one without alias, and the default sender is known as eoa
C13_Witness ==
    /\ last.op = "generate_address"
    /\ last.alias = None
    /\ Len(generated) = 3
    /\ last.t.canonical_address \notin DOMAIN _aliases
    /\ lookup_alias(_aliases, generated[1]) = Some("eoa")
    /\ lookup_alias(_aliases, generated[2]) = Some("alice")

-----------------------------------------------------------------------------
(* Two environments in one process *)

NextEnvs ==
    \/ \E n \in PatchNames, v \in Values : Counted /\ PatchSet(n, v)
    \/ \E n \in PatchNames, v \in Values : Counted /\ OtherPatchSet(n, v)
    \/ UNCHANGED steps /\ AnchorEnter
    \/ \E raised \in BOOLEAN : UNCHANGED steps /\ AnchorExit(raised)

SpecEnvs == Init /\ [][NextEnvs]_vars

\* C14: the patch state belongs to one environment: setting any of the eight
\* parameters through the first environment, or leaving an anchor scope of
\* the first environment, leaves every parameter read through the second
\* environment unchanged.
C14_PatchStatePerEnv ==
    [][last'.op \in {"setattr", "anchor_exit"} =>
           \A n \in PatchNames :
               VMPatcher_getattr(OtherPatched', n) = VMPatcher_getattr(OtherPatched, n)]_vars

-----------------------------------------------------------------------------
(* Frames and the precompile registry *)

\* the number of frames constructed
MaxFrames == 2

NextFrame ==
    \/ \E a \in PrecompileInputs, fn \in PrecompileHandlers, force \in BOOLEAN :
           Counted /\ RegisterRawPrecompile(a, fn, force)
    \/ \E a \in PrecompileInputs, force \in BOOLEAN :
           Counted /\ DeregisterRawPrecompile(a, force)
    \/ Len(frames) < MaxFrames /\ UNCHANGED steps /\ NewFrame

SpecFrame == Init /\ [][NextFrame]_vars

\* C15: the precompile table of a frame is made at its construction, from
\* the class-level table and every entry the process-wide registry holds at
\* that moment, and making it leaves the class-level table as it was; a
\* later registration or deregistration changes the table of no frame
\* already constructed.
C15_FrameTableIsCopy ==
    [][/\ \A i \in 1..Len(frames) :
              frames'[i]._precompiles = frames[i]._precompiles
       /\ last'.op = "titanoboa_computation" =>
              LET f == frames'[Len(frames')]._precompiles
              IN  /\ DOMAIN f = DOMAIN class_precompiles \cup DOMAIN _precompiles
                  /\ \A k \in DOMAIN _precompiles : f[k] = _precompiles[k]
                  /\ \A k \in DOMAIN class_precompiles \ DOMAIN _precompiles :
                         f[k] = class_precompiles[k]
                  /\ class_precompiles' = class_precompiles]_vars

\* the second frame was constructed after a registration and the
\* deregistration of the console precompile: the first frame still has the
\* console precompile and lacks the new entry, the second the opposite
C15_Witness ==
    /\ last.op = "titanoboa_computation"
    /\ Len(frames) = 2
    /\ ModuleLoaded.obj \in DOMAIN frames[1]._precompiles
    /\ ModuleLoaded.obj \notin DOMAIN frames[2]._precompiles
    /\ \E k \in DOMAIN _precompiles :
           /\ k \notin DOMAIN frames[1]._precompiles
           /\ k \in DOMAIN frames[2]._precompiles

-----------------------------------------------------------------------------
(* The contract registry *)

\* the address a registration or lookup is made at, in every representation
RegistryInputs ==
    AddressInputs({Implementation}) \cup
        {[kind |-> "Address", obj |-> o] :
            o \in {x \in AddressObjects : x.canonical_address = Implementation}}

\* the 20 bytes an input stands for
CanonicalOf(x) == IF x.kind = "Address" THEN x.obj.canonical_address ELSE x.addr

NextRegistry ==
    \/ \E x \in RegistryInputs, d \in Deployers :
           /\ CountedCall
           /\ RegisterContract(x, Handler(d, CanonicalOf(x)))
           /\ Logged(<<[address |-> Some(CanonicalOf(x)),
                        bytecode |-> code[CanonicalOf(x)],
                        obj |-> Handler(d, CanonicalOf(x))]>>)
    \/ \E b \in {Raw(1), Raw(2)}, d \in Deployers :
           /\ CountedCall
           /\ RegisterBlueprint(b, Handler(d, 0))
           /\ Logged(<<[address |-> None, bytecode |-> b, obj |-> Handler(d, 0)]>>)
    \/ \E out \in CreateOutcomes :
           /\ CountedCall
           /\ DeployCode(_initial_address_counter + 1, Raw(1), None, out)
           /\ Logged(last'.registered)
    \/ \E x \in RegistryInputs : UNCHANGED steps /\ LookupContract(x)

SpecRegistry == Init /\ [][NextRegistry]_vars

\* the handler of the most recent registration at an address, under a bytecode
LastAt(a) ==
    LET idx == {i \in 1..Len(registrations) : registrations[i].address = Some(a)}
    IN  IF idx = {} THEN None
        ELSE Some(registrations[CHOOSE i \in idx : \A j \in idx : j <= i].obj)
LastUnder(b) ==
    LET idx == {i \in 1..Len(registrations) : registrations[i].bytecode = b}
    IN  IF idx = {} THEN None
        ELSE Some(registrations[CHOOSE i \in idx : \A j \in idx : j <= i].obj)

\* C16: the registry is last-write-wins in both key spaces: the lookup of an
\* address, in whatever representation, returns the handler of the most
\* recent registration at that address, or nothing if there was none; the
\* fingerprint entry of a bytecode holds the handler of the most recent
\* registration under that bytecode, which for register_contract is the
\* bytecode stored at the address when it was called.
C16_RegistryLastWriteWins ==
    /\ \A a \in AllAddrs : _lookup_contract_fast(_contracts, a) = LastAt(a)
    /\ DOMAIN _contracts \subseteq AllAddrs
    /\ \A x \in RegistryInputs :
           lookup_contract(_contracts, _cache, x) = LastAt(CanonicalOf(x))
    /\ \A b \in DOMAIN _code_registry \cup
                   {registrations[i].bytecode : i \in 1..Len(registrations)} :
           /\ b \in DOMAIN _code_registry
           /\ Some(_code_registry[b]) = LastUnder(b)
    /\ last.op = "lookup_contract" => last.ret = LastAt(last.canonical)

\* the address was registered twice, in two representations and with the
\* account holding different bytecode each time, and is looked up in a third
\* representation: the second handler is returned, and each bytecode has the
\* handler registered under it
C16_Witness ==
    /\ last.op = "lookup_contract"
    /\ Len(registrations) = 2
    /\ registrations[1].address = registrations[2].address
    /\ registrations[1].obj # registrations[2].obj
    /\ registrations[1].bytecode # registrations[2].bytecode
    /\ last.ret = Some(registrations[2].obj)
    /\ _code_registry[registrations[1].bytecode] = registrations[1].obj
    /\ [kind |-> "checksum", addr |-> Implementation] \in DOMAIN _cache
    /\ [kind |-> "bytes", addr |-> Implementation] \in DOMAIN _cache
    /\ [kind |-> "normalized", addr |-> Implementation] \in DOMAIN _cache

-----------------------------------------------------------------------------
(* Nested calls of a frame *)

\* the number of nested calls recorded by one frame
MaxChildren == 3

ProgramCounters == {0, 5}
ChildComputations == {"c1", "c2"}

NextChild ==
    \/ Len(frames) = 0 /\ UNCHANGED steps /\ NewFrame
    \/ \E i \in 1..Len(frames), c \in ChildComputations, pc \in ProgramCounters,
             raises \in BOOLEAN :
           /\ Len(frames[i]._child_pcs) < MaxChildren
           /\ UNCHANGED steps
           /\ AddChildComputation(i, c, pc, raises)

SpecChild == Init /\ [][NextChild]_vars

\* C18, as claimed: on a nested call the frame appends its program counter
\* to its child-call list before it delegates, so the list gets an entry for
\* every attempted nested call, also when the delegated step raises.
C18_PcBeforeDelegating ==
    [][last'.op = "add_child_computation" =>
           frames'[last'.frame]._child_pcs =
               Append(frames[last'.frame]._child_pcs, last'.pc)]_vars

\* C18: on a nested call the frame delegates first and appends its program
\* counter after the delegated step returned: the child-call list has one
\* entry per nested call whose delegated step returned, in call order and
\* aligned with the children, and a call whose delegated step raises leaves
\* the frame as it was.
C18_PcAfterDelegating ==
    [][/\ \A i \in 1..Len(frames') :
              Len(frames'[i]._child_pcs) = Len(frames'[i].children)
       /\ last'.op = "add_child_computation" =>
              LET f == frames[last'.frame]
                  g == frames'[last'.frame]
              IN  IF last'.raised = "none"
                  THEN /\ g._child_pcs = Append(f._child_pcs, last'.pc)
                       /\ g.children = Append(f.children, last'.child_computation)
                  ELSE frames' = frames]_vars

\* the delegated step of a nested call raised after an earlier nested call
\* of the same frame had returned: the list has the one entry of the earlier
\* call
C18_Witness ==
    /\ last.op = "add_child_computation"
    /\ last.raised # "none"
    /\ last.pc = 0
    /\ frames[last.frame]._child_pcs = <<5>>
    /\ frames[last.frame].children = <<"c1">>

-----------------------------------------------------------------------------
(* Both instrumentation hooks *)

NextHooks ==
    \/ \E a \in {_initial_address_counter + 1},
             st \in {x \in Stacks : Len(x) <= 2}, sig \in {"return", "VMError"} :
           UNCHANGED steps /\ SstoreHook(a, st, sig)
    \/ \E st \in Sha3Stacks, m \in {0}, sig \in {"return", "VMError"} :
           UNCHANGED steps /\ Sha3Hook(st, m, sig)

SpecHooks == Init /\ [][NextHooks]_vars

\* C20: each hook calls the operation it wraps exactly once, whatever is on
\* the stack, and what the hook raises is what the wrapped operation raised;
\* the storage-write hook has traced the slot also when the write failed,
\* and the hash hook leaves the sha3 trace alone when the hash failed.
C20_HooksTransparent ==
    [][last'.op \in {"sstore", "sha3"} =>
           /\ last'.delegated = 1
           /\ last'.raised = last'.wrapped
           /\ last'.op = "sstore" =>
                  last'.stack[Len(last'.stack)] \in sstore_trace'[last'.account]
           /\ (last'.op = "sha3" /\ last'.raised # "none") =>
                  sha3_trace' = sha3_trace]_vars

-----------------------------------------------------------------------------
(* Creation-time resolution *)

\* C21: the resolution of a creation that is not a minimal proxy is keyed on
\* the bytecode the creation deployed at the new address, not on the
\* initialization code of the message: a rebound handler, with created_from
\* the creating address, is bound at the new address if and only if the
\* deployed bytecode has a registered handler, and the engine's result is
\* returned as it is.
C21_ResolutionOnDeployedCode ==
    [][(/\ last'.op = "deploy_code"
        /\ ~last'.is_error
        /\ ~is_eip1167_contract(last'.code)) =>
           LET P == last'.target
               deployed == code'[P]
           IN  /\ last'.ret = Some(<<P, deployed>>)
               /\ IF deployed \in DOMAIN _code_registry
                  THEN /\ P \in DOMAIN _contracts'
                       /\ _contracts'[P] =
                              [Deployer_at(_code_registry[deployed], P)
                                   EXCEPT !.created_from = last'.sender]
                  ELSE _contracts' = _contracts]_vars

\* C22: a creation that ends in error leaves the contract registry as it
\* was in both key spaces, so every address is looked up with the same
\* result as before the deploy.
C22_FailedCreateKeepsRegistry ==
    [][(last'.op = "deploy_code" /\ last'.is_error) =>
           /\ _contracts' = _contracts
           /\ _code_registry' = _code_registry
           /\ \A a \in AllAddrs :
                  _lookup_contract_fast(_contracts', a)
                      = _lookup_contract_fast(_contracts, a)]_vars

=============================================================================
